---- MODULE Spec2Model ----
(***************************************************************************)
(* Model of the orchestration core of scripter (ScriptBuilder.tsx): the    *)
(* task reducer (the store), the TaskProvider (the step sequencer with its *)
(* two effects) and the useTask hook (the task handle).                    *)
(*                                                                         *)
(* React's scheduling is modelled as it acts on this code: a dispatch is   *)
(* folded into `state` at once (the reducer is pure, so folding the update *)
(* queue early or at the next render gives the same value), while the      *)
(* closures of the last render (isCurrentChildComplete, registerTask) read *)
(* `rendered` and `currentIndex`, which change only in Render.  The        *)
(* passive effects of a commit run synchronously after it, in the order    *)
(* the provider declares them (`due`); no asynchronous event interleaves.  *)
(***************************************************************************)
EXTENDS Integers, Sequences, FiniteSets, TLC

(* ------------------------------ bounds -------------------------------- *)
\* the longest step list (children of the provider) explored
MaxSteps == 2
\* the most tasks the store holds at once
MaxTasks == 2
\* execute() calls of one handle whose body is still pending
MaxInflight == 1
\* cap on the length of completedTaskIds and of any childIds sequence
MaxLen == MaxTasks
\* the calls that can be left awaiting by torn-down handles: a handle holds a
\* task and at most MaxInflight calls, so no call is ever beyond this
MaxOrphans == MaxTasks * MaxInflight

(* ------------------------------- values ------------------------------- *)
\* null / undefined TaskId (taskIdRef.current = null, parentId undefined)
Null == <<>>
\* error?: Error absent
NoError == <<>>
\* startTime?/endTime? absent
NoTime == "undefined"
\* Date.now(): the code only stores the reading, it never compares two
Times == {"now"}
\* `${currentIndex}-${Math.random().toString(36).substring(2, 9)}`
TaskId(index, suffix) == <<index, suffix>>
Suffixes == 1..MaxTasks
\* the labels leaf operations register under (free text, never read back)
Names == {"Log"}
\* values a body may throw: an Error, or something that is not an Error
Thrown == {<<"Error", "boom">>, <<"string", "boom">>}
\* values a body may resolve with
Results == {"undefined", "content"}
\* what execute resolves with after `await fn()`: the function has no return
ExecuteResult(value) == "undefined"
\* error instanceof Error ? error : new Error(String(error))
NormalizeError(e) == IF e[1] = "Error" THEN e ELSE <<"Error", e[2]>>

VARIABLES
    state,          \* useReducer state with every dispatched action folded in
    rendered,       \* isCurrentChildComplete of the last render, as index |-> result
    dirty,          \* a dispatch produced a new state object since that render
    currentIndex,   \* useState(0), as of the last render
    advancePending, \* setCurrentIndex(prev => prev + 1) queued
    previousCompletionState, \* useRef<boolean[]>([])
    due,            \* effects of the last commit still to run, in order
    stepCount,      \* childrenArray.length
    handles,        \* the mounted useTask instances, each named by its
                    \* taskIdRef.current: id |-> execute() calls awaiting fn(),
                    \* each as the id it passed to startTask
    orphaned,       \* execute() calls awaiting fn() whose instance was torn
                    \* down (taskIdRef.current = null)
    last,           \* history: how the latest execute() call to finish ended
    verdicts        \* history: the last two verdicts of the predicate for currentIndex

vars == <<state, rendered, dirty, currentIndex, advancePending,
          previousCompletionState, due, stepCount, handles, orphaned,
          last, verdicts>>

(* ------------------------------ the store ----------------------------- *)
InitialState == [tasks |-> <<>>, rootTaskIds |-> <<>>, completedTaskIds |-> <<>>]

Has(tasks, id) == id \in DOMAIN tasks

\* { ...tasks, [id]: task }
Put(tasks, id, task) ==
    [k \in (DOMAIN tasks) \cup {id} |-> IF k = id THEN task ELSE tasks[k]]

Includes(seq, x) == \E i \in 1..Len(seq) : seq[i] = x

NewTask(id, name, parentId, index) ==
    [id |-> id, name |-> name, status |-> "pending", error |-> NoError,
     startTime |-> NoTime, endTime |-> NoTime, parentId |-> parentId,
     childIds |-> <<>>, index |-> index]

\* REGISTER_TASK that lists every task as a root, with or without parentId
RegisterAlwaysRoot(s, task) ==
    [s EXCEPT !.tasks = Put(s.tasks, task.id, task),
              !.rootTaskIds = Append(s.rootTaskIds, task.id)]

REGISTER_TASK(s, task) ==
    [s EXCEPT !.tasks = Put(s.tasks, task.id, task),
              !.rootTaskIds = IF task.parentId # Null THEN s.rootTaskIds
                              ELSE Append(s.rootTaskIds, task.id)]

START_TASK(s, id, now) ==
    IF ~Has(s.tasks, id) THEN s
    ELSE [s EXCEPT !.tasks[id].status = "running",
                   !.tasks[id].startTime = now]

\* COMPLETE_TASK that moves the task out of the map, keeping only its id in
\* completedTaskIds
CompleteRemoves(s, id, now) ==
    IF ~Has(s.tasks, id) THEN s
    ELSE [s EXCEPT !.tasks = [k \in (DOMAIN s.tasks) \ {id} |-> s.tasks[k]],
                   !.completedTaskIds = Append(s.completedTaskIds, id)]

\* COMPLETE_TASK without its `if (!task) return state`
CompleteUnguarded(s, id, now) ==
    IF ~Has(s.tasks, id)
    THEN [s EXCEPT !.completedTaskIds = Append(s.completedTaskIds, id)]
    ELSE [s EXCEPT !.tasks[id].status = "completed",
                   !.tasks[id].endTime = now,
                   !.completedTaskIds = Append(s.completedTaskIds, id)]

COMPLETE_TASK(s, id, now) ==
    IF ~Has(s.tasks, id) THEN s
    ELSE [s EXCEPT !.tasks[id].status = "completed",
                   !.tasks[id].endTime = now,
                   !.completedTaskIds = Append(s.completedTaskIds, id)]

\* FAIL_TASK that lists the id in completedTaskIds as COMPLETE_TASK does
FailAlsoCompletes(s, id, error, now) ==
    IF ~Has(s.tasks, id) THEN s
    ELSE [s EXCEPT !.tasks[id].status = "failed",
                   !.tasks[id].error = error,
                   !.tasks[id].endTime = now,
                   !.completedTaskIds = Append(s.completedTaskIds, id)]

FAIL_TASK(s, id, error, now) ==
    IF ~Has(s.tasks, id) THEN s
    ELSE [s EXCEPT !.tasks[id].status = "failed",
                   !.tasks[id].error = error,
                   !.tasks[id].endTime = now]

\* SET_PARENT whose entry for [id] spreads `parent` where the code spreads `task`
SetParentSpreadsParent(s, id, parentId) ==
    IF ~Has(s.tasks, id) \/ ~Has(s.tasks, parentId) THEN s
    ELSE LET parent == s.tasks[parentId]
             withChild == Put(s.tasks, id, [parent EXCEPT !.parentId = parentId])
         IN [s EXCEPT
               !.tasks = Put(withChild, parentId,
                             [parent EXCEPT !.childIds = Append(parent.childIds, id)]),
               !.rootTaskIds = SelectSeq(s.rootTaskIds, LAMBDA tid : tid # id)]

\* the object literal writes key [id] first and key [parentId] second, both
\* from the tasks read before the update: when id = parentId the second wins
SET_PARENT(s, id, parentId) ==
    IF ~Has(s.tasks, id) \/ ~Has(s.tasks, parentId) THEN s
    ELSE LET task == s.tasks[id]
             parent == s.tasks[parentId]
             withChild == Put(s.tasks, id, [task EXCEPT !.parentId = parentId])
         IN [s EXCEPT
               !.tasks = Put(withChild, parentId,
                             [parent EXCEPT !.childIds = Append(parent.childIds, id)]),
               !.rootTaskIds = SelectSeq(s.rootTaskIds, LAMBDA tid : tid # id)]

\* CLEANUP_TASKS that also drops the removed ids from completedTaskIds
CleanupAlsoCompleted(s, index) ==
    LET kept == {id \in DOMAIN s.tasks : s.tasks[id].index <= index}
        filteredTasks == [id \in kept |-> s.tasks[id]]
    IN [s EXCEPT !.tasks = filteredTasks,
                 !.rootTaskIds = SelectSeq(s.rootTaskIds,
                                           LAMBDA id : Has(filteredTasks, id)),
                 !.completedTaskIds = SelectSeq(s.completedTaskIds,
                                                LAMBDA id : Has(filteredTasks, id))]

\* CLEANUP_TASKS with `task.index < currentIndex` for `<=`
CleanupStrict(s, index) ==
    LET kept == {id \in DOMAIN s.tasks : s.tasks[id].index < index}
        filteredTasks == [id \in kept |-> s.tasks[id]]
    IN [s EXCEPT !.tasks = filteredTasks,
                 !.rootTaskIds = SelectSeq(s.rootTaskIds,
                                           LAMBDA id : Has(filteredTasks, id))]

CLEANUP_TASKS(s, index) ==
    LET kept == {id \in DOMAIN s.tasks : s.tasks[id].index <= index}
        filteredTasks == [id \in kept |-> s.tasks[id]]
    IN [s EXCEPT !.tasks = filteredTasks,
                 !.rootTaskIds = SelectSeq(s.rootTaskIds,
                                           LAMBDA id : Has(filteredTasks, id))]

taskReducer(s, action) ==
    CASE action.type = "REGISTER_TASK" -> REGISTER_TASK(s, action.task)
      [] action.type = "START_TASK" -> START_TASK(s, action.id, action.now)
      [] action.type = "COMPLETE_TASK" -> COMPLETE_TASK(s, action.id, action.now)
      [] action.type = "FAIL_TASK" -> FAIL_TASK(s, action.id, action.error, action.now)
      [] action.type = "SET_PARENT" -> SET_PARENT(s, action.id, action.parentId)
      [] action.type = "CLEANUP_TASKS" -> CLEANUP_TASKS(s, action.currentIndex)
      [] OTHER -> s

\* the reducer returns the state object it was given (no new tasks object)
IsNoop(s, action) ==
    CASE action.type \in {"START_TASK", "COMPLETE_TASK", "FAIL_TASK"} ->
            ~Has(s.tasks, action.id)
      [] action.type = "SET_PARENT" ->
            ~Has(s.tasks, action.id) \/ ~Has(s.tasks, action.parentId)
      [] OTHER -> FALSE

\* dispatch(action): the action is queued and folded by the reducer
dispatch(action) ==
    /\ state' = taskReducer(state, action)
    /\ dirty' = (dirty \/ ~IsNoop(state, action))

(* ---------------------------- the sequencer --------------------------- *)
Steps == 0..(MaxSteps - 1)

\* previousCompletionState.current[i]; an unset slot is undefined (falsy)
Truthy(ref, i) == i \in DOMAIN ref /\ ref[i]

\* Object.values(state.tasks).filter((task) => task.index === childIndex)
childTasks(s, childIndex) ==
    {id \in DOMAIN s.tasks : s.tasks[id].index = childIndex}

\* isComplete without its `childTasks.length > 0` conjunct
isCompleteNoLength(s, childIndex) ==
    \A id \in childTasks(s, childIndex) :
        \/ Includes(s.completedTaskIds, s.tasks[id].id)
        \/ s.tasks[id].status = "completed"

\* the isComplete expression of isCurrentChildComplete
isComplete(s, childIndex) ==
    /\ childTasks(s, childIndex) # {}
    /\ \A id \in childTasks(s, childIndex) :
          \/ Includes(s.completedTaskIds, s.tasks[id].id)
          \/ s.tasks[id].status = "completed"

\* useCallback(..., [state.tasks, state.completedTaskIds, childrenArray]): the
\* closure a render over reducer state s creates, tabulated over the indices
Closure(s) == [i \in Steps |-> isComplete(s, i)]

\* isCurrentChildComplete(childIndex) of the last render: its return value
isCurrentChildComplete(childIndex) ==
    IF childIndex >= stepCount THEN TRUE
    ELSE rendered[childIndex]

\* ... and what it leaves in previousCompletionState.current
RefAfterCheck(ref, childIndex) ==
    IF childIndex >= stepCount THEN ref
    ELSE Put(ref, childIndex, rendered[childIndex])

\* the progression effect reads previousCompletionState.current[currentIndex]
\* after isCurrentChildComplete(currentIndex) has written it
previousComplete(refBefore, refAfter, index) == Truthy(refAfter, index)

\* the condition of the progression effect's `if`, without its last conjunct
shouldAdvanceUnbounded(currentComplete, previous) ==
    currentComplete /\ previous

\* the condition of the progression effect's `if`
shouldAdvance(currentComplete, previous) ==
    currentComplete /\ previous /\ currentIndex < stepCount - 1

\* history: keep the last two verdicts
Remember(h, verdict) ==
    IF Len(h) < 2 THEN Append(h, verdict) ELSE <<h[2], verdict>>

\* history: no execute() call has finished yet
NoCall == [outcome |-> "none", started |-> Null, thrown |-> NoError,
           body |-> "undefined", result |-> "undefined"]

\* a commit that runs only the progression effect, as if the cleanup effect
\* were not declared
ProgressionOnly == <<"progression">>

\* the effects of the first commit and of a commit that changed currentIndex,
\* in the order the provider declares them
EffectsOfIndexChange == <<"cleanup", "progression">>

Init ==
    /\ state = InitialState
    /\ rendered = Closure(InitialState)
    /\ dirty = FALSE
    /\ currentIndex = 0
    /\ advancePending = FALSE
    /\ previousCompletionState = <<>>
    /\ due = EffectsOfIndexChange
    /\ stepCount \in 0..MaxSteps
    /\ handles = <<>>
    /\ orphaned = <<>>
    /\ last = NoCall
    /\ verdicts = <<>>

handleVars == <<handles, orphaned, last>>
sequencerVars == <<currentIndex, advancePending, previousCompletionState, due,
                   stepCount, rendered, verdicts>>

\* the execute() calls of the instances `ids` that await their fn()
RECURSIVE Awaiting(_, _)
Awaiting(hs, ids) ==
    IF ids = {} THEN <<>>
    ELSE LET id == CHOOSE x \in ids : TRUE
         IN hs[id] \o Awaiting(hs, ids \ {id})

\* more awaiting calls lose their instance
Orphan(calls) == SubSeq(orphaned \o calls, 1,
                        IF Len(orphaned) + Len(calls) > MaxOrphans
                        THEN MaxOrphans ELSE Len(orphaned) + Len(calls))

\* an updater that skips a step
SkipIndex(prev) == prev + 2

\* setCurrentIndex((prev) => prev + 1): the updater
NextIndex(prev) == prev + 1

\* a render of the provider followed by the commit: the queued updates become
\* visible to the closures; a changed index replaces the rendered step, which
\* unmounts every handle of the old one (their effect cleanups null the refs)
Render ==
    /\ due = <<>>
    /\ dirty \/ advancePending
    /\ rendered' = Closure(state)
    /\ dirty' = FALSE
    /\ advancePending' = FALSE
    /\ currentIndex' = IF advancePending THEN NextIndex(currentIndex)
                                          ELSE currentIndex
    /\ IF advancePending
       THEN /\ due' = EffectsOfIndexChange
            /\ handles' = <<>>
            /\ orphaned' = Orphan(Awaiting(handles, DOMAIN handles))
       ELSE /\ due' = <<"progression">>
            /\ UNCHANGED <<handles, orphaned>>
    /\ verdicts' = IF advancePending THEN <<>> ELSE verdicts
    /\ UNCHANGED <<state, previousCompletionState, stepCount, last>>

\* useEffect(() => dispatch({ type: "CLEANUP_TASKS", currentIndex }), [currentIndex])
CleanupEffect ==
    /\ due # <<>> /\ Head(due) = "cleanup"
    /\ dispatch([type |-> "CLEANUP_TASKS", currentIndex |-> currentIndex])
    /\ due' = Tail(due)
    /\ UNCHANGED <<rendered, currentIndex, advancePending, previousCompletionState,
                   stepCount, verdicts, handleVars>>

\* the progression effect
ProgressionEffect ==
    /\ due # <<>> /\ Head(due) = "progression"
    /\ LET currentComplete == isCurrentChildComplete(currentIndex)
           refAfter == RefAfterCheck(previousCompletionState, currentIndex)
           previous == previousComplete(previousCompletionState, refAfter, currentIndex)
       IN /\ previousCompletionState' = refAfter
          /\ advancePending' = shouldAdvance(currentComplete, previous)
          /\ verdicts' = Remember(verdicts, currentComplete)
    /\ due' = Tail(due)
    /\ UNCHANGED <<state, rendered, dirty, currentIndex, stepCount, handleVars>>

(* ----------------------------- task handles --------------------------- *)
\* Math.random(): a suffix not in use (ids are taken to be fresh; of the fresh
\* ones the least is drawn, the ids being opaque)
FreshSuffix(s, index) ==
    CHOOSE r \in Suffixes :
        /\ ~Has(s.tasks, TaskId(index, r))
        /\ \A q \in Suffixes : q < r => Has(s.tasks, TaskId(index, q))

CanRegister(s, index) ==
    /\ Cardinality(DOMAIN s.tasks) < MaxTasks
    /\ \E r \in Suffixes : ~Has(s.tasks, TaskId(index, r))

\* registerTask that tags the task for the step after the rendered one
registerTaskAhead(name, parentId) ==
    [type |-> "REGISTER_TASK",
     task |-> NewTask(TaskId(currentIndex + 1, FreshSuffix(state, currentIndex + 1)),
                      name, parentId, currentIndex + 1)]

\* registerTask memoised with [] for [currentIndex]: the closure of the first
\* render, whose currentIndex is 0
registerTaskStale(name, parentId) ==
    [type |-> "REGISTER_TASK",
     task |-> NewTask(TaskId(0, FreshSuffix(state, 0)), name, parentId, 0)]

\* registerTask(name, parentId) of the last render: the action it dispatches
registerTask(name, parentId) ==
    [type |-> "REGISTER_TASK",
     task |-> NewTask(TaskId(currentIndex, FreshSuffix(state, currentIndex)),
                      name, parentId, currentIndex)]

\* ids a component can pass as parentId: the taskId another handle returned
ParentChoices == {Null} \cup DOMAIN handles

\* the handles without the one holding id
Drop(hs, id) == [k \in (DOMAIN hs) \ {id} |-> hs[k]]

\* a leaf of the active step mounts: useTask's effect registers its task and
\* keeps the id in taskIdRef
Mount(name, parentId) ==
    /\ due = <<>>
    /\ currentIndex < stepCount
    /\ CanRegister(state, currentIndex)
    /\ dispatch(registerTask(name, parentId))
    /\ handles' = Put(handles, registerTask(name, parentId).task.id, <<>>)
    /\ UNCHANGED <<sequencerVars, orphaned, last>>

\* name, parentId or registerTask of a mounted handle changed: the effect's
\* cleanup nulls the ref and the effect runs again, on the same instance
ReRegister(h, name, parentId) ==
    /\ due = <<>>
    /\ h \in DOMAIN handles
    /\ CanRegister(state, currentIndex)
    /\ dispatch(registerTask(name, parentId))
    /\ handles' = Put(Drop(handles, h), registerTask(name, parentId).task.id,
                      handles[h])
    /\ UNCHANGED <<sequencerVars, orphaned, last>>

\* a leaf is unmounted while its step stays active (conditional rendering)
Unmount(h) ==
    /\ due = <<>>
    /\ h \in DOMAIN handles
    /\ handles' = Drop(handles, h)
    /\ orphaned' = Orphan(handles[h])
    /\ UNCHANGED <<state, dirty, sequencerVars, last>>

\* execute(fn) without the `if (!taskIdRef.current) throw`: fn() is called
RunsUninitialized(calls) == Orphan(<<Null>>)

\* execute(fn) while taskIdRef.current is null: throws before any dispatch
\* and before fn() is called; the awaiting calls stay as they are
NotInitialized(calls) == calls

\* execute(fn) on an instance whose effect has not run yet or was cleaned up
ExecuteUninitialized ==
    /\ due = <<>>
    /\ stepCount > 0
    /\ orphaned' = NotInitialized(orphaned)
    /\ last' = [NoCall EXCEPT !.outcome = "notInitialized"]
    /\ UNCHANGED <<state, dirty, sequencerVars, handles>>

\* execute(fn) up to the await: startTask(taskIdRef.current), fn() called
Execute(h, now) ==
    /\ due = <<>>
    /\ h \in DOMAIN handles
    /\ Len(handles[h]) < MaxInflight
    /\ dispatch([type |-> "START_TASK", id |-> h, now |-> now])
    /\ handles' = [handles EXCEPT ![h] = Append(@, h)]
    /\ UNCHANGED <<sequencerVars, orphaned, last>>

\* fn() resolved: completeTask(taskIdRef.current)
Resolve(h, value, now) ==
    /\ due = <<>>
    /\ h \in DOMAIN handles
    /\ handles[h] # <<>>
    /\ Len(state.completedTaskIds) < MaxLen
    /\ dispatch([type |-> "COMPLETE_TASK", id |-> h, now |-> now])
    /\ handles' = [handles EXCEPT ![h] = Tail(@)]
    /\ last' = [NoCall EXCEPT !.outcome = "resolved",
                               !.started = Head(handles[h]),
                               !.body = value,
                               !.result = ExecuteResult(value)]
    /\ UNCHANGED <<sequencerVars, orphaned>>

\* fn() threw: failTask(taskIdRef.current, normalized error), then rethrow
Reject(h, error, now) ==
    /\ due = <<>>
    /\ h \in DOMAIN handles
    /\ handles[h] # <<>>
    /\ dispatch([type |-> "FAIL_TASK", id |-> h,
                 error |-> NormalizeError(error), now |-> now])
    /\ handles' = [handles EXCEPT ![h] = Tail(@)]
    /\ last' = [NoCall EXCEPT !.outcome = "rejected",
                               !.started = Head(handles[h]),
                               !.thrown = error]
    /\ UNCHANGED <<sequencerVars, orphaned>>

\* execute that keeps the id it started in a local and uses it after the await
CapturedRef(started) == started

\* taskIdRef.current as a call reads it after the effect cleanup ran
TornDownRef(started) == Null

\* the sequence without its i-th element
Without(seq, i) == SubSeq(seq, 1, i - 1) \o SubSeq(seq, i + 1, Len(seq))

\* fn() resolved after the instance was torn down: completeTask(null)
ResolveOrphan(i, value, now) ==
    /\ due = <<>>
    /\ i \in 1..Len(orphaned)
    /\ dispatch([type |-> "COMPLETE_TASK", id |-> TornDownRef(orphaned[i]),
                 now |-> now])
    /\ orphaned' = Without(orphaned, i)
    /\ last' = [NoCall EXCEPT !.outcome = "resolved",
                               !.started = orphaned[i],
                               !.body = value,
                               !.result = ExecuteResult(value)]
    /\ UNCHANGED <<sequencerVars, handles>>

\* fn() threw after the instance was torn down: failTask(null, error), rethrow
RejectOrphan(i, error, now) ==
    /\ due = <<>>
    /\ i \in 1..Len(orphaned)
    /\ dispatch([type |-> "FAIL_TASK", id |-> TornDownRef(orphaned[i]),
                 error |-> NormalizeError(error), now |-> now])
    /\ orphaned' = Without(orphaned, i)
    /\ last' = [NoCall EXCEPT !.outcome = "rejected",
                               !.started = orphaned[i],
                               !.thrown = error]
    /\ UNCHANGED <<sequencerVars, handles>>

Next ==
    \/ Render
    \/ CleanupEffect
    \/ ProgressionEffect
    \/ \E n \in Names, p \in ParentChoices : Mount(n, p)
    \/ \E h \in DOMAIN handles, n \in Names, p \in ParentChoices : ReRegister(h, n, p)
    \/ \E h \in DOMAIN handles : Unmount(h)
    \/ ExecuteUninitialized
    \/ \E h \in DOMAIN handles, now \in Times : Execute(h, now)
    \/ \E h \in DOMAIN handles, v \in Results, now \in Times : Resolve(h, v, now)
    \/ \E h \in DOMAIN handles, e \in Thrown, now \in Times : Reject(h, e, now)
    \/ \E i \in 1..Len(orphaned), v \in Results, now \in Times :
          ResolveOrphan(i, v, now)
    \/ \E i \in 1..Len(orphaned), e \in Thrown, now \in Times :
          RejectOrphan(i, e, now)

Spec == Init /\ [][Next]_vars

\* React runs a scheduled render and the effects of a commit; what components
\* and bodies do is left to them
Fairness ==
    /\ WF_vars(Render)
    /\ WF_vars(CleanupEffect)
    /\ WF_vars(ProgressionEffect)

FairSpec == Spec /\ Fairness

(* ------------------- the reducer under arbitrary actions --------------- *)
\* the ids the reducer is handed: those in the store, and one that is not
\* (null, what a torn-down handle passes)
IdChoices == (DOMAIN state.tasks) \cup {Null}

\* parent links made so far: the total length of the childIds sequences
RECURSIVE SumLen(_, _)
SumLen(tasks, ids) ==
    IF ids = {} THEN 0
    ELSE LET id == CHOOSE x \in ids : TRUE
         IN Len(tasks[id].childIds) + SumLen(tasks, ids \ {id})
Links(s) == SumLen(s.tasks, DOMAIN s.tasks)

\* one reducer transition
Apply(action) ==
    /\ state' = taskReducer(state, action)
    /\ UNCHANGED <<dirty, sequencerVars, handleVars>>

StoreRegister(index, name, parentId) ==
    /\ CanRegister(state, index)
    /\ Apply([type |-> "REGISTER_TASK",
              task |-> NewTask(TaskId(index, FreshSuffix(state, index)),
                               name, parentId, index)])

StoreStart(id, now) ==
    Apply([type |-> "START_TASK", id |-> id, now |-> now])

StoreComplete(id, now) ==
    /\ Len(state.completedTaskIds) < MaxLen
    /\ Apply([type |-> "COMPLETE_TASK", id |-> id, now |-> now])

StoreFail(id, error, now) ==
    Apply([type |-> "FAIL_TASK", id |-> id, error |-> error, now |-> now])

StoreSetParent(id, parentId) ==
    /\ Links(state) < MaxLen
    /\ Apply([type |-> "SET_PARENT", id |-> id, parentId |-> parentId])

StoreCleanup(index) ==
    Apply([type |-> "CLEANUP_TASKS", currentIndex |-> index])

StoreInit == Init /\ stepCount = MaxSteps

StoreNext ==
    \/ \E i \in Steps, n \in Names, p \in IdChoices : StoreRegister(i, n, p)
    \/ \E id \in IdChoices, now \in Times : StoreStart(id, now)
    \/ \E id \in IdChoices, now \in Times : StoreComplete(id, now)
    \/ \E id \in IdChoices, e \in Thrown, now \in Times :
          StoreFail(id, NormalizeError(e), now)
    \/ \E id, p \in IdChoices : StoreSetParent(id, p)
    \/ \E i \in Steps : StoreCleanup(i)

StoreSpec == StoreInit /\ [][StoreNext]_vars

(* ------------- the reducer with ids as Math.random draws them ---------- *)
\* registerTask with the suffix as drawn: Math.random() may return a value it
\* returned before, and nothing compares the id with the keys of the store
StoreRegisterDrawn(index, suffix, name, parentId) ==
    /\ Cardinality(DOMAIN state.tasks \cup {TaskId(index, suffix)}) <= MaxTasks
    /\ Len(state.rootTaskIds) <= MaxLen
    /\ Apply([type |-> "REGISTER_TASK",
              task |-> NewTask(TaskId(index, suffix), name, parentId, index)])

DrawNext ==
    \/ \E i \in Steps, r \in Suffixes, n \in Names, p \in IdChoices :
          StoreRegisterDrawn(i, r, n, p)
    \/ \E id \in IdChoices, now \in Times : StoreStart(id, now)
    \/ \E id \in IdChoices, now \in Times : StoreComplete(id, now)
    \/ \E id \in IdChoices, e \in Thrown, now \in Times :
          StoreFail(id, NormalizeError(e), now)

DrawSpec == StoreInit /\ [][DrawNext]_vars

(* ------------------------------- claims ------------------------------- *)
Task(id) == state.tasks[id]
Ids == DOMAIN state.tasks
NoDuplicates(seq) == \A i, j \in 1..Len(seq) : i # j => seq[i] # seq[j]

\* C1: no task with stepIndex k+1 is registered while a task with stepIndex k
\* in the store has a status other than completed, every task is registered
\* for the index the sequencer is at, and the index only ever grows by one.
C1_Ordering ==
    [][/\ \A id \in (DOMAIN state'.tasks) \ Ids :
             /\ state'.tasks[id].index = currentIndex
             /\ \A t \in Ids : Task(t).index + 1 = state'.tasks[id].index
                                 => Task(t).status = "completed"
       /\ currentIndex' \in {currentIndex, currentIndex + 1}]_vars

\* C2: the sequencer decides to advance only when the predicate read true on
\* the present evaluation and on the evaluation of the same index before it.
C2_Debounce == advancePending => verdicts = <<TRUE, TRUE>>

\* C3: while a task of the current step has status failed, currentIndex does
\* not change and the sequencer takes no decision to advance.
C3_StallOnFailure ==
    [][(\E id \in Ids : Task(id).index = currentIndex /\ Task(id).status = "failed")
          => /\ currentIndex' = currentIndex
             /\ advancePending' => advancePending]_vars

\* C4: a step with no task in the store never satisfies the completion
\* predicate, neither on the store nor in the closure of the last render, and
\* the sequencer holds no decision to advance from it.
C4_ZeroTaskStall ==
    \A i \in Steps :
        childTasks(state, i) = {} =>
            /\ ~isComplete(state, i)
            /\ ~rendered[i]
            /\ i = currentIndex => ~advancePending

\* C4 witness: the sequencer has evaluated a step without tasks twice, with a
\* next step to go to, and stays.
C4_Witness ==
    /\ currentIndex + 1 < stepCount
    /\ childTasks(state, currentIndex) = {}
    /\ Len(verdicts) = 2
    /\ due = <<>> /\ ~dirty /\ ~advancePending

\* C5: the sequencer is never past a step that holds a task registered under
\* a completed parent of that step (a nested child spawned in the parent's
\* success path) that has not completed.
C5_SubtreeHeld ==
    \A c \in Ids :
        (/\ Task(c).parentId \in Ids
         /\ Task(Task(c).parentId).index = Task(c).index
         /\ Task(Task(c).parentId).status = "completed"
         /\ Task(c).index < currentIndex)
        => Task(c).status = "completed"

\* C6: completedTaskIds holds every id at most once.
C6_SingleCompletion == NoDuplicates(state.completedTaskIds)

\* C7: for every k, pruneAbove(k) leaves no task with stepIndex > k and no id
\* of a removed task in rootTaskIds, and keeps every task with stepIndex <= k
\* exactly as it was.
C7_PruneFrame ==
    \A k \in Steps :
        LET after == CLEANUP_TASKS(state, k)
            removed == {id \in Ids : Task(id).index > k}
        IN /\ \A id \in DOMAIN after.tasks : after.tasks[id].index <= k
           /\ \A i \in 1..Len(after.rootTaskIds) : after.rootTaskIds[i] \notin removed
           /\ \A id \in Ids \ removed :
                 Has(after.tasks, id) /\ after.tasks[id] = Task(id)
           /\ after.completedTaskIds = state.completedTaskIds

\* C7 witness: a prune has removed a completed task (its id is still in
\* completedTaskIds) and kept a task that had run and has a parent link.
C7_Witness ==
    /\ \E i \in 1..Len(state.completedTaskIds) : state.completedTaskIds[i] \notin Ids
    /\ \E id \in Ids : Task(id).status # "pending" /\ Task(id).parentId # Null
    /\ \E k \in Steps : CLEANUP_TASKS(state, k).tasks # state.tasks

\* C8: setParent(id, p) applied twice gives the state it gives applied once.
C8_SetParentIdempotent ==
    \A id, p \in Ids \cup {Null} :
        SET_PARENT(SET_PARENT(state, id, p), id, p) = SET_PARENT(state, id, p)

\* C9: setParent(id, q) on a task whose parentId is already set to another
\* id leaves the store unchanged.
C9_ParentSetOnce ==
    \A id \in Ids : \A q \in Ids \cup {Null} :
        (Task(id).parentId # Null /\ Task(id).parentId # q)
            => SET_PARENT(state, id, q) = state

\* C10: every task is listed in rootTaskIds or is a member of some task's
\* childIds, and never both.
C10_RootXorChild ==
    \A id \in Ids :
        LET isRoot == Includes(state.rootTaskIds, id)
            isChild == \E p \in Ids : Includes(Task(p).childIds, id)
        IN (isRoot \/ isChild) /\ ~(isRoot /\ isChild)

\* C11: a task registered with the id of a registered task as parentId is a
\* member of that parent's childIds and is not listed in rootTaskIds.
C11_ChildLinked ==
    \A c \in Ids :
        Task(c).parentId \in Ids
            => /\ Includes(Task(Task(c).parentId).childIds, c)
               /\ ~Includes(state.rootTaskIds, c)

\* C12: when the body of an execute call resolves, complete is applied to the
\* task the call started: that task is completed and its id is the one
\* appended to completedTaskIds.
C12_ResolveCompletes ==
    [][(last' # last /\ last'.outcome = "resolved")
          => /\ Has(state'.tasks, last'.started)
             /\ state'.tasks[last'.started].status = "completed"
             /\ state'.completedTaskIds =
                    Append(state.completedTaskIds, last'.started)]_vars

\* C13: when the body of an execute call throws, fail is applied to the task
\* the call started, with the thrown value normalised to an Error; complete is
\* not applied and the call rejects with the value as thrown.
C13_RejectFails ==
    [][(last' # last /\ last'.outcome = "rejected")
          => /\ last'.thrown \in Thrown
             /\ Has(state'.tasks, last'.started)
             /\ state'.tasks[last'.started].status = "failed"
             /\ state'.tasks[last'.started].error = NormalizeError(last'.thrown)
             /\ state'.completedTaskIds = state.completedTaskIds]_vars

\* C14: an execute call on a handle without a task id ends not-initialized,
\* leaves the store as it is and calls no body.
C14_NotInitialized ==
    [][(last' # last /\ last'.outcome = "notInitialized")
          => /\ state' = state
             /\ dirty' = dirty
             /\ handles' = handles
             /\ orphaned' = orphaned]_vars

\* C14 witness: the call was made with tasks in the store, one of them
\* running, and a body of a torn-down handle still awaited.
C14_Witness ==
    /\ last.outcome = "notInitialized"
    /\ orphaned # <<>>
    /\ \E id \in Ids : Task(id).status = "running"

\* C15: no register makes a mounted handle lose the id it holds: a handle
\* that stays mounted registers once.
C15_RegisterOnce ==
    [][(DOMAIN state'.tasks) \ Ids # {}
          => DOMAIN handles \subseteq DOMAIN handles']_vars

\* the ids that are not keys of the store: null and the ids not handed out
Unknown == ({Null} \cup {TaskId(i, r) : i \in Steps, r \in Suffixes}) \ Ids

\* C16: start, complete and fail of an unknown id, and setParent with an
\* unknown id on either side, return the store they were given.
C16_UnknownIdNoop ==
    \A u \in Unknown :
        /\ \A now \in Times :
              /\ START_TASK(state, u, now) = state
              /\ COMPLETE_TASK(state, u, now) = state
              /\ \A e \in Thrown :
                    FAIL_TASK(state, u, NormalizeError(e), now) = state
        /\ \A k \in Ids \cup Unknown :
              /\ SET_PARENT(state, u, k) = state
              /\ SET_PARENT(state, k, u) = state

\* C16 witness: the store holds tasks, roots and completions, and an id that
\* was pruned from it is still listed in completedTaskIds.
C16_Witness ==
    /\ Ids # {}
    /\ state.rootTaskIds # <<>>
    /\ \E i \in 1..Len(state.completedTaskIds) :
          state.completedTaskIds[i] \in Unknown
    /\ \E id \in Ids : Task(id).status = "failed"

\* C17: a task whose status is completed or failed keeps that status.
C17_TerminalFinal ==
    [][\A id \in Ids \cap DOMAIN state'.tasks :
          Task(id).status \in {"completed", "failed"}
              => state'.tasks[id].status = Task(id).status]_vars

\* C18: fail(id, error) changes neither completedTaskIds nor rootTaskIds nor
\* any task but id, and an id enters completedTaskIds only in a step that
\* leaves its task completed.
C18_FailFrame ==
    [][/\ \A id \in IdChoices, e \in Thrown, now \in Times :
             LET after == FAIL_TASK(state, id, NormalizeError(e), now)
             IN /\ after.completedTaskIds = state.completedTaskIds
                /\ after.rootTaskIds = state.rootTaskIds
                /\ DOMAIN after.tasks = Ids
                /\ \A o \in Ids \ {id} : after.tasks[o] = Task(o)
       /\ \A id \in Ids :
             (/\ Includes(state'.completedTaskIds, id)
              /\ ~Includes(state.completedTaskIds, id))
             => /\ Has(state'.tasks, id)
                /\ state'.tasks[id].status = "completed"]_vars

\* C18 witness: a task has failed and is not listed, beside a root that is
\* listed as completed.
C18_Witness ==
    /\ \E id \in Ids :
          /\ Task(id).status = "failed"
          /\ Task(id).error # NoError
          /\ ~Includes(state.completedTaskIds, id)
    /\ \E id \in Ids :
          /\ Includes(state.completedTaskIds, id)
          /\ Includes(state.rootTaskIds, id)

\* C19: every mounted handle holds a task of the step at currentIndex, no
\* handle is mounted when there is no such step, and a task is registered
\* with the index the sequencer is at, in a step that does not move it.
C19_ActiveStepOnly ==
    [][/\ \A h \in DOMAIN handles : Has(state.tasks, h) /\ Task(h).index = currentIndex
       /\ handles # <<>> => currentIndex < stepCount
       /\ \A id \in (DOMAIN state'.tasks) \ Ids :
             /\ state'.tasks[id].index = currentIndex
             /\ currentIndex' = currentIndex
             /\ id \in DOMAIN handles']_vars

\* C19 witness: the sequencer is past step 0, whose tasks are still in the
\* store, and a handle of the present step holds a task.
C19_Witness ==
    /\ currentIndex > 0
    /\ \E id \in Ids : Task(id).index < currentIndex
    /\ \E h \in DOMAIN handles : Has(state.tasks, h) /\ Task(h).index = currentIndex

\* C20: currentIndex stays within 0..max(0, stepCount - 1), and at the last
\* step the sequencer holds no decision to advance.
C20_IndexBounded ==
    /\ currentIndex >= 0
    /\ currentIndex <= (IF stepCount > 0 THEN stepCount - 1 ELSE 0)
    /\ currentIndex >= stepCount - 1 => ~advancePending

\* C20 witness: the last of several steps has read complete twice and the
\* sequencer is at rest on it.
C20_Witness ==
    /\ stepCount > 1
    /\ currentIndex = stepCount - 1
    /\ isComplete(state, currentIndex)
    /\ verdicts = <<TRUE, TRUE>>
    /\ due = <<>> /\ ~dirty /\ ~advancePending

IsPrefix(a, b) == Len(a) <= Len(b) /\ SubSeq(b, 1, Len(a)) = a

\* C22: every store operation leaves the old completedTaskIds as a prefix of
\* the new one, and what it appends is the one id of a task that the same
\* operation leaves completed with an endTime.
C22_AppendOnly ==
    [][/\ IsPrefix(state.completedTaskIds, state'.completedTaskIds)
       /\ state'.completedTaskIds # state.completedTaskIds
             => /\ Len(state'.completedTaskIds) = Len(state.completedTaskIds) + 1
                /\ LET id == state'.completedTaskIds[Len(state'.completedTaskIds)]
                   IN /\ Has(state.tasks, id) /\ Has(state'.tasks, id)
                      /\ state'.tasks[id].status = "completed"
                      /\ state'.tasks[id].endTime # NoTime]_vars

\* C22 witness: completedTaskIds is full, and lists an id whose task a prune
\* has removed beside one whose task is in the store.
C22_Witness ==
    /\ Len(state.completedTaskIds) = MaxLen
    /\ \E i \in 1..Len(state.completedTaskIds) : state.completedTaskIds[i] \notin Ids
    /\ \E i \in 1..Len(state.completedTaskIds) : state.completedTaskIds[i] \in Ids

\* C23: a task that is in the store before and after a store operation has
\* the same index, and its index is the one its id was made from.
C23_IndexFixed ==
    [][\A id \in Ids \cap DOMAIN state'.tasks :
          /\ state'.tasks[id].index = Task(id).index
          /\ Task(id).index = id[1]]_vars

\* C23 witness: a task of step 1 has a parent of step 0 set by setParent, has
\* run, and is no root.
C23_Witness ==
    \E id \in Ids :
        /\ Task(id).index = 1
        /\ Task(id).parentId \in Ids
        /\ Task(Task(id).parentId).index = 0
        /\ Includes(Task(Task(id).parentId).childIds, id)
        /\ Task(id).status # "pending"

\* C24: a task carries an error exactly when its status is failed.
C24_ErrorIffFailed ==
    \A id \in Ids : (Task(id).error # NoError) <=> (Task(id).status = "failed")

\* C25: a pending task has no startTime and no endTime, a running task has a
\* startTime and no endTime, a completed or failed task has an endTime.
C25_Timestamps ==
    \A id \in Ids :
        /\ Task(id).status = "pending"
              => Task(id).startTime = NoTime /\ Task(id).endTime = NoTime
        /\ Task(id).status = "running"
              => Task(id).startTime # NoTime /\ Task(id).endTime = NoTime
        /\ Task(id).status \in {"completed", "failed"}
              => Task(id).endTime # NoTime

\* the predicate of the specification: at least one task of the step, and
\* every task of the step has status completed
ReferenceComplete(s, i) ==
    /\ childTasks(s, i) # {}
    /\ \A id \in childTasks(s, i) : s.tasks[id].status = "completed"

\* C29: for every index the predicate the sequencer computes on the store
\* equals the reference predicate.
C29_PredicateIsReference ==
    \A i \in Steps : isComplete(state, i) = ReferenceComplete(state, i)

C26_ResultIsBodyValue ==
    last.outcome = "resolved" => last.result = last.body

C28_PruneOnIndexChange ==
    [][/\ currentIndex' # currentIndex
             => due' = <<"cleanup", "progression">> /\ verdicts' = <<>>
       /\ (due # <<>> /\ Head(due) = "cleanup")
             => /\ verdicts = <<>> /\ ~dirty
                /\ state' = CLEANUP_TASKS(state, currentIndex)
                /\ currentIndex' = currentIndex
                /\ due' = <<"progression">>
       /\ (due # <<>> /\ Head(due) = "progression" /\ verdicts = <<>>)
             => /\ dirty
                /\ state = CLEANUP_TASKS(state, currentIndex)
                /\ currentIndex < stepCount
                      => verdicts' = <<isComplete(state, currentIndex)>>]_vars

\* C28 witness: the first commit at index 1 has run the prune and is about to
\* evaluate the predicate, with tasks of step 0 in the store.
C28_Witness ==
    /\ currentIndex = 1
    /\ due = <<"progression">>
    /\ verdicts = <<>>
    /\ dirty
    /\ childTasks(state, 0) # {}

\* the step at currentIndex, if there is one, has registered a task
StepHasTask == currentIndex >= stepCount \/ childTasks(state, currentIndex) # {}

\* every task in the store has been started and no body is awaited
AllBodiesDone ==
    /\ \A id \in Ids : Task(id).startTime # NoTime
    /\ \A h \in DOMAIN handles : handles[h] = <<>>
    /\ orphaned = <<>>

\* a task has failed or a body has thrown
SomeFailure ==
    \/ \E id \in Ids : Task(id).status = "failed"
    \/ last.outcome = "rejected"

\* C21: if again and again the step at currentIndex has a task and every
\* registered task has been executed with no body left pending, and no task
\* fails and no body throws, the sequencer reaches the last index.
C21_Liveness ==
    ([]<>StepHasTask /\ []<>AllBodiesDone)
        => <>(currentIndex >= stepCount - 1 \/ SomeFailure)

\* C31: no step of the provider and its handles removes a task, a teardown
\* included, unless it is the prune; and start, complete, fail, setParent and
\* a register applied to the store keep every id that is in it.
C31_RemovedOnlyByPrune ==
    [][/\ \/ Ids \subseteq DOMAIN state'.tasks
          \/ due # <<>> /\ Head(due) = "cleanup"
       /\ \A id \in Ids \cup {Null}, now \in Times :
             /\ Ids \subseteq DOMAIN START_TASK(state, id, now).tasks
             /\ Ids \subseteq DOMAIN COMPLETE_TASK(state, id, now).tasks
             /\ \A e \in Thrown :
                   Ids \subseteq DOMAIN FAIL_TASK(state, id, NormalizeError(e), now).tasks
             /\ \A p \in Ids \cup {Null} :
                   Ids \subseteq DOMAIN SET_PARENT(state, id, p).tasks
       /\ CanRegister(state, currentIndex)
             => \A n \in Names, p \in ParentChoices :
                   Ids \subseteq DOMAIN REGISTER_TASK(state, registerTask(n, p).task).tasks]_vars

\* C31 witness: a handle of the present step was torn down while its body was
\* pending; its task is in the store, beside a task of a step left behind.
C31_Witness ==
    /\ currentIndex > 0
    /\ \E id \in Ids : Task(id).index < currentIndex
    /\ \E id \in Ids :
          /\ Task(id).index = currentIndex
          /\ id \notin DOMAIN handles
          /\ Includes(orphaned, id)

\* C32: a register never lists in rootTaskIds an id that was a key of the
\* store already, and the step component of every id is its task's index.
C32_FreshIds ==
    [][/\ Len(state'.rootTaskIds) > Len(state.rootTaskIds)
             => state'.rootTaskIds[Len(state'.rootTaskIds)] \notin Ids
       /\ \A id \in Ids : Task(id).index = id[1]]_vars

\* C33: the complete or fail of an execute call changes the task the call
\* started, and no other task.
C33_TerminalOnStarted ==
    [][(last' # last /\ last'.outcome \in {"resolved", "rejected"})
          => /\ Has(state.tasks, last'.started)
             /\ Has(state'.tasks, last'.started)
             /\ state'.tasks[last'.started].status =
                   (IF last'.outcome = "resolved" THEN "completed" ELSE "failed")
             /\ \A o \in Ids \ {last'.started} :
                   Has(state'.tasks, o) /\ state'.tasks[o] = Task(o)]_vars

\* C34: no task has an index above currentIndex, and pruneAbove(currentIndex)
\* returns the store with the tasks and roots it was given.
C34_NothingAhead ==
    /\ \A id \in Ids : Task(id).index <= currentIndex
    /\ CLEANUP_TASKS(state, currentIndex) = state

\* C34 witness: the sequencer has pruned at index 1 with tasks of step 0 in
\* the store, and a task of step 1 has been registered since.
C34_Witness ==
    /\ currentIndex = 1
    /\ due = <<>>
    /\ childTasks(state, 0) # {}
    /\ childTasks(state, 1) # {}

\* C35: currentIndex changes only by one upward, and only when an advance
\* was queued.
C35_StepByOne ==
    [][currentIndex' # currentIndex
          => currentIndex' = currentIndex + 1 /\ advancePending]_vars

\* C35 witness: the sequencer has moved from 0 to 1 and has evaluated step 1.
C35_Witness ==
    /\ currentIndex = 1
    /\ Truthy(previousCompletionState, 0)
    /\ 1 \in DOMAIN previousCompletionState

\* C36: a task's status is completed exactly when its id is in
\* completedTaskIds.
C36_RecordsAgree ==
    \A id \in Ids :
        (Task(id).status = "completed") <=> Includes(state.completedTaskIds, id)

\* C37: rootTaskIds has no duplicates, lists only keys of the store, lists
\* only tasks without parentId, and lists every task without parentId.
C37_RootsWellFormed ==
    /\ NoDuplicates(state.rootTaskIds)
    /\ \A i \in 1..Len(state.rootTaskIds) :
          /\ state.rootTaskIds[i] \in Ids
          /\ Task(state.rootTaskIds[i]).parentId = Null
    /\ \A id \in Ids : Task(id).parentId = Null => Includes(state.rootTaskIds, id)

\* C38: every id in a childIds, every parentId and every id in
\* completedTaskIds is a key of the store.
C38_NoDangling ==
    /\ \A id \in Ids :
          /\ Task(id).parentId # Null => Task(id).parentId \in Ids
          /\ \A i \in 1..Len(Task(id).childIds) : Task(id).childIds[i] \in Ids
    /\ \A i \in 1..Len(state.completedTaskIds) : state.completedTaskIds[i] \in Ids

\* the tasks reached from id by following childIds at most n times
RECURSIVE Descendants(_, _)
Descendants(id, n) ==
    IF n = 0 \/ ~Has(state.tasks, id) THEN {}
    ELSE LET children == {Task(id).childIds[i] : i \in 1..Len(Task(id).childIds)}
         IN children \cup UNION {Descendants(c, n - 1) : c \in children}

\* C39: no task is its own parent, and none is reached from itself through
\* childIds.
C39_Acyclic ==
    \A id \in Ids :
        /\ Task(id).parentId # id
        /\ id \notin Descendants(id, MaxTasks)

====
